---- MODULE Spec2Model ----
(***************************************************************************)
(* Model of cosma: the Agent of 00_core.ipynb (construction, one turn of   *)
(* run_with_tools, the history pruning) and the Chain of the chain         *)
(* notebook (sequential execution over a list of agents, the step trace).  *)
(* The cosette Chat client is external: its tool loop is a nondeterministic *)
(* choice over what it appends to the history and whether it raises.       *)
(***************************************************************************)
EXTENDS Integers, Sequences, FiniteSets, TLC

\* ---------------------------------------------------------------- bounds
NumAgents == 2
MaxMsgs == 6
MaxMiddle == 2
MaxChainLen == 2
MaxInvokes == 2
MaxSteps == 4
MaxValidators == 2
MaxPieces == 5
MaxLoggers == 2
MaxEvents == 2

\* ------------------------------------------------------- optional values
\* Python's None is the empty tuple, a present value v the 1-tuple <<v>>.
None == <<>>
Some(v) == <<v>>
Val(o) == o[1]

\* ------------------------------------------------------------ input sets
AgentIds == 1..NumAgents
models == {"gpt-4o"}
ModelArgs == models \cup {"bad-model"}
RoleArgs == {"tutor", "writer"}
SystemArgs == {None, Some(""), Some("Be terse.")}
MemoryArgs == {None, Some(-1), Some(0), Some(1), Some(2), Some(3)}
Texts == {"p", "q"}
ClientErrors == {"APIError", "ToolError"}
MiddleRoles == {"assistant", "tool", "system"}
DefaultMaxSteps == 5
MaxStepsArgs == {None, Some(2)}

\* ------------------------------------------------------------------ state
VARIABLES
    agent,      \* agent[a]: None, or Some of the dataclass fields of Agent a
    chat,       \* chat[a]: None, or Some([model, sp, h]): the Chat session of a
    ctorLog,    \* ctorLog[a]: None, or Some(record) of the last Agent(...) call
    nextId,     \* identity of the next message object the client allocates
    lastTurn,   \* None, or Some(record) of the last run_with_tools call
    chain,      \* None, or Some([agents, steps]): the Chain object
    frame,      \* the current or last Chain.__call__ activation
    invokes,    \* number of Chain.__call__ activations started
    sysSeen,    \* sysSeen[a]: the system messages that were ever in a's history
    answer,     \* None, or Some(record): what the last operation returned,
                \* when it was show, validate or use
    xml,        \* the text under extraction and the last extract_xml call
    loggers,    \* loggers[n]: level and handlers of logging.getLogger("agent." n)
    instances,  \* the AgentLogger objects constructed, in order
    lastLog     \* None, or Some(record) of the last log_event call

agentVars == <<agent, chat, ctorLog, nextId, lastTurn, chain, frame, invokes,
               sysSeen, answer>>
xmlVars == <<xml>>
logVars == <<loggers, instances, lastLog>>
vars == <<agent, chat, ctorLog, nextId, lastTurn, chain, frame, invokes,
          sysSeen, answer, xml, loggers, instances, lastLog>>

\* ---------------------------------------------------------- Agent: fields
IsSystem(m) == m.role = "system"
NonSystem(m) == m.role # "system"

Range(s) == {s[i] : i \in 1..Len(s)}
SystemOf(h) == {m \in Range(h) : IsSystem(m)}
NonSystemCount(h) == Len(SelectSeq(h, NonSystem))

\* the Python truth value of an Optional[str]: None and "" are both falsy
Truthy(o) == o # None /\ Val(o) # ""

DefaultPrompt(role) == "You are a " \o role \o "."

\* Chat(model, tools=...): a fresh session, empty history, no system prompt,
\* no usage; use counts the completions the session has received
NewChat(model) == [model |-> model, sp |-> None, h |-> <<>>, use |-> 0]

\* a constructor that opens the session before it checks the registry
post_init_session_first(role, model, system, memory_size) ==
    LET session == Some([NewChat(model) EXCEPT
                      !.sp = Some(IF Truthy(system) THEN Val(system)
                                  ELSE DefaultPrompt(role))])
    IN IF model \notin models
       THEN [raised |-> Some("ValueError"), chat |-> session]
       ELSE [raised |-> None, chat |-> session]

\* Agent.__post_init__: the registry check, then the session, then its prompt
post_init(role, model, system, memory_size) ==
    IF model \notin models
    THEN [raised |-> Some("ValueError"), chat |-> None]
    ELSE [raised |-> None,
          chat |-> Some([NewChat(model) EXCEPT
                    !.sp = Some(IF Truthy(system) THEN Val(system)
                                ELSE DefaultPrompt(role))])]

\* ------------------------------------------------- Agent: history pruning
\* Python's s[-n:]: the last n elements for n > 0 (all of s when it has no
\* more), all of s for n = 0 (-0 is 0), s without its first -n for n < 0
LastN(s, n) ==
    IF n > 0
    THEN IF Len(s) <= n THEN s ELSE SubSeq(s, Len(s) - n + 1, Len(s))
    ELSE IF Len(s) <= -n THEN <<>> ELSE SubSeq(s, 1 - n, Len(s))

\* a pruning that keeps the last memory_size messages of any role
prune_history_any_role(memory_size, h) ==
    IF memory_size = None \/ Val(memory_size) <= 0 THEN h
    ELSE IF Len(h) > Val(memory_size) + 1
         THEN LastN(h, Val(memory_size))
         ELSE h

\* a pruning that returns early only when memory_size is None
prune_history_no_sign_test(memory_size, h) ==
    IF memory_size = None THEN h
    ELSE IF Len(h) > Val(memory_size) + 1
         THEN SelectSeq(h, IsSystem)
                \o LastN(SelectSeq(h, NonSystem), Val(memory_size))
         ELSE h

\* a pruning that drops the old non-system messages where they stand and
\* leaves the other messages in the order they had
prune_history_in_place(memory_size, h) ==
    IF memory_size = None \/ Val(memory_size) <= 0 THEN h
    ELSE IF Len(h) > Val(memory_size) + 1
         THEN LET kept == Range(LastN(SelectSeq(h, NonSystem),
                                      Val(memory_size)))
              IN SelectSeq(h, LAMBDA m : IsSystem(m) \/ m \in kept)
         ELSE h

\* a pruning that fires as soon as the history holds more than memory_size
\* messages
prune_history_tight(memory_size, h) ==
    IF memory_size = None \/ Val(memory_size) <= 0 THEN h
    ELSE IF Len(h) > Val(memory_size)
         THEN SelectSeq(h, IsSystem)
                \o LastN(SelectSeq(h, NonSystem), Val(memory_size))
         ELSE h

\* a pruning that fires only when the history holds more than
\* memory_size + 2 messages
prune_history_loose(memory_size, h) ==
    IF memory_size = None \/ Val(memory_size) <= 0 THEN h
    ELSE IF Len(h) > Val(memory_size) + 2
         THEN SelectSeq(h, IsSystem)
                \o LastN(SelectSeq(h, NonSystem), Val(memory_size))
         ELSE h

\* a pruning that drops only the oldest non-system message each time it
\* fires
prune_history_one_at_a_time(memory_size, h) ==
    IF memory_size = None \/ Val(memory_size) <= 0 THEN h
    ELSE IF Len(h) > Val(memory_size) + 1
         THEN SelectSeq(h, IsSystem) \o LastN(SelectSeq(h, NonSystem), -1)
         ELSE h

\* a pruning that keeps the oldest memory_size non-system messages
prune_history_oldest(memory_size, h) ==
    IF memory_size = None \/ Val(memory_size) <= 0 THEN h
    ELSE IF Len(h) > Val(memory_size) + 1
         THEN SelectSeq(h, IsSystem)
                \o SubSeq(SelectSeq(h, NonSystem), 1, Val(memory_size))
         ELSE h

prune_history(memory_size, h) ==
    IF memory_size = None \/ Val(memory_size) <= 0 THEN h
    ELSE IF Len(h) > Val(memory_size) + 1
         THEN SelectSeq(h, IsSystem)
                \o LastN(SelectSeq(h, NonSystem), Val(memory_size))
         ELSE h

\* ------------------------------------------------- the external tool loop
MiddleSeqs == UNION {[1..n -> MiddleRoles] : n \in 0..MaxMiddle}

\* what one toolloop call does: the roles of the messages it appends, and
\* either the text of its final response or the error it raises
ClientBehaviours ==
    {[ok |-> TRUE, roles |-> <<"user">> \o m \o <<"assistant">>, out |-> t] :
        m \in MiddleSeqs, t \in Texts}
    \cup
    {[ok |-> FALSE, roles |-> p, out |-> e] :
        p \in {<<>>} \cup {<<"user">> \o m : m \in MiddleSeqs},
        e \in ClientErrors}

\* the messages a call appends: fresh objects id0, id0+1, ...
Appended(roles, id0) ==
    [i \in 1..Len(roles) |-> [id |-> id0 + i - 1, role |-> roles[i]]]

toolloop(h, prompt, max_steps, beh, id0) ==
    [h |-> h \o Appended(beh.roles, id0),
     raised |-> IF beh.ok THEN None ELSE Some(beh.out),
     response |-> IF beh.ok THEN Some([content |-> beh.out]) ELSE None]

contents(response) == response.content

\* the usage one toolloop call adds to chat.use: one unit for each
\* completion, that is for each assistant message it appended
Completions(beh) == Len(SelectSeq(beh.roles, LAMBDA r : r = "assistant"))

\* ------------------------------------------------------- Agent: one turn
\* a turn that calls the client a second time when the first call raised
run_with_tools_retry(memory_size, h, prompt, max_steps, beh, id0) ==
    LET pruned == prune_history(memory_size, h)
        steps  == IF max_steps = None THEN DefaultMaxSteps ELSE Val(max_steps)
        first  == toolloop(pruned, prompt, steps, beh, id0)
        call   == IF first.raised = None THEN first
                  ELSE toolloop(first.h, prompt, steps, beh, id0)
        one    == [prompt |-> prompt, max_steps |-> steps]
    IN [h |-> call.h,
        sent |-> pruned,
        prunes |-> 1,
        calls |-> IF first.raised = None THEN <<one>> ELSE <<one, one>>,
        raised |-> call.raised,
        ret |-> IF call.raised = None
                THEN Some(contents(Val(call.response))) ELSE None]

\* a turn that calls the client on the stored history and prunes afterwards
run_with_tools_prune_after(memory_size, h, prompt, max_steps, beh, id0) ==
    LET steps  == IF max_steps = None THEN DefaultMaxSteps ELSE Val(max_steps)
        call   == toolloop(h, prompt, steps, beh, id0)
    IN [h |-> prune_history(memory_size, call.h),
        sent |-> h,
        prunes |-> 1,
        calls |-> <<[prompt |-> prompt, max_steps |-> steps]>>,
        raised |-> call.raised,
        ret |-> IF call.raised = None
                THEN Some(contents(Val(call.response))) ELSE None]

\* Agent.run_with_tools: sent is the history the client is called on, calls
\* the arguments of the toolloop calls, prunes the number of prunings
run_with_tools(memory_size, h, prompt, max_steps, beh, id0) ==
    LET pruned == prune_history(memory_size, h)
        steps  == IF max_steps = None THEN DefaultMaxSteps ELSE Val(max_steps)
        call   == toolloop(pruned, prompt, steps, beh, id0)
    IN [h |-> call.h,
        sent |-> pruned,
        prunes |-> 1,
        calls |-> <<[prompt |-> prompt, max_steps |-> steps]>>,
        raised |-> call.raised,
        ret |-> IF call.raised = None
                THEN Some(contents(Val(call.response))) ELSE None]

\* the record of a turn, kept for the properties
TurnRecord(a, h0, prompt, max_steps, beh, r) ==
    [agent |-> a, prompt |-> prompt, max_steps |-> max_steps, beh |-> beh,
     pre |-> h0, sent |-> r.sent,
     post |-> r.h, prunes |-> r.prunes, calls |-> r.calls,
     raised |-> r.raised, ret |-> r.ret]

\* ---------------------------------------------------------------- Chain
\* an activation whose result starts as None instead of x
call_enter_no_result(ch, x) ==
    LET empty == Len(ch.agents) = 0
    IN [status |-> IF empty THEN "returned" ELSE "running",
        x |-> Some(x), i |-> 1, result |-> Some(x), entry |-> Len(ch.steps),
        raised |-> None, ret |-> None, turns |-> <<>>, vcalls |-> 0]

\* the activation of Chain.__call__(x) before the loop: result = x; a chain
\* without agents falls through the loop and returns result; vcalls counts
\* the validator calls the activation makes
call_enter(ch, x) ==
    LET empty == Len(ch.agents) = 0
    IN [status |-> IF empty THEN "returned" ELSE "running",
        x |-> Some(x), i |-> 1, result |-> Some(x), entry |-> Len(ch.steps),
        raised |-> None, ret |-> IF empty THEN Some(x) ELSE None,
        turns |-> <<>>, vcalls |-> 0]

\* an iteration that records the step with the output as its input
call_iter_input_after(fr, ch, a, r) ==
    IF r.raised # None
    THEN [frame |-> [fr EXCEPT !.status = "raised", !.raised = r.raised,
                               !.turns = Append(@, fr.i)],
          steps |-> ch.steps]
    ELSE LET last == fr.i = Len(ch.agents)
         IN [frame |-> [fr EXCEPT
                          !.status = IF last THEN "returned" ELSE "running",
                          !.i = fr.i + 1,
                          !.result = r.ret,
                          !.ret = IF last THEN r.ret ELSE None,
                          !.turns = Append(@, fr.i)],
             steps |-> Append(ch.steps,
                          [agent |-> a, input |-> Val(r.ret),
                           output |-> Val(r.ret)])]

\* an iteration that records a step for the agent whose turn raised
call_iter_record_failed(fr, ch, a, r) ==
    IF r.raised # None
    THEN [frame |-> [fr EXCEPT !.status = "raised", !.raised = r.raised,
                               !.turns = Append(@, fr.i)],
          steps |-> Append(ch.steps,
                       [agent |-> a, input |-> Val(fr.result),
                        output |-> ""])]
    ELSE LET last == fr.i = Len(ch.agents)
         IN [frame |-> [fr EXCEPT
                          !.status = IF last THEN "returned" ELSE "running",
                          !.i = fr.i + 1,
                          !.result = r.ret,
                          !.ret = IF last THEN r.ret ELSE None,
                          !.turns = Append(@, fr.i)],
             steps |-> Append(ch.steps,
                          [agent |-> a, input |-> Val(fr.result),
                           output |-> Val(r.ret)])]

\* an iteration that leaves result as it was: every agent is given x
call_iter_no_thread(fr, ch, a, r) ==
    IF r.raised # None
    THEN [frame |-> [fr EXCEPT !.status = "raised", !.raised = r.raised,
                               !.turns = Append(@, fr.i)],
          steps |-> ch.steps]
    ELSE LET last == fr.i = Len(ch.agents)
         IN [frame |-> [fr EXCEPT
                          !.status = IF last THEN "returned" ELSE "running",
                          !.i = fr.i + 1,
                          !.ret = IF last THEN r.ret ELSE None,
                          !.turns = Append(@, fr.i)],
             steps |-> Append(ch.steps,
                          [agent |-> a, input |-> Val(fr.result),
                           output |-> Val(r.ret)])]

\* an iteration that starts a new steps list with the first agent of a run
call_iter_fresh_run(fr, ch, a, r) ==
    IF r.raised # None
    THEN [frame |-> [fr EXCEPT !.status = "raised", !.raised = r.raised,
                               !.turns = Append(@, fr.i)],
          steps |-> ch.steps]
    ELSE LET last == fr.i = Len(ch.agents)
         IN [frame |-> [fr EXCEPT
                          !.status = IF last THEN "returned" ELSE "running",
                          !.i = fr.i + 1,
                          !.result = r.ret,
                          !.ret = IF last THEN r.ret ELSE None,
                          !.turns = Append(@, fr.i)],
             steps |-> Append(IF fr.i = 1 THEN <<>> ELSE ch.steps,
                          [agent |-> a, input |-> Val(fr.result),
                           output |-> Val(r.ret)])]

\* an iteration that validates the output of the turn and raises when a
\* validator rejects it
call_iter_gated(fr, ch, a, r) ==
    IF r.raised # None
    THEN [frame |-> [fr EXCEPT !.status = "raised", !.raised = r.raised,
                               !.turns = Append(@, fr.i)],
          steps |-> ch.steps]
    ELSE LET last == fr.i = Len(ch.agents)
             n == Len(ch.validators)
             valid == \A i \in 1..n : Val(r.ret) \in ch.validators[i]
         IN IF valid
            THEN [frame |-> [fr EXCEPT
                          !.status = IF last THEN "returned" ELSE "running",
                          !.i = fr.i + 1,
                          !.result = r.ret,
                          !.ret = IF last THEN r.ret ELSE None,
                          !.turns = Append(@, fr.i),
                          !.vcalls = @ + n],
                  steps |-> Append(ch.steps,
                          [agent |-> a, input |-> Val(fr.result),
                           output |-> Val(r.ret)])]
            ELSE [frame |-> [fr EXCEPT !.status = "raised",
                                       !.raised = Some("ValidationError"),
                                       !.turns = Append(@, fr.i),
                                       !.vcalls = @ + n],
                  steps |-> ch.steps]

\* an iteration that does not record the step of the last agent
call_iter_skip_last(fr, ch, a, r) ==
    IF r.raised # None
    THEN [frame |-> [fr EXCEPT !.status = "raised", !.raised = r.raised,
                               !.turns = Append(@, fr.i)],
          steps |-> ch.steps]
    ELSE LET last == fr.i = Len(ch.agents)
         IN [frame |-> [fr EXCEPT
                          !.status = IF last THEN "returned" ELSE "running",
                          !.i = fr.i + 1,
                          !.result = r.ret,
                          !.ret = IF last THEN r.ret ELSE None,
                          !.turns = Append(@, fr.i)],
             steps |-> IF last THEN ch.steps
                       ELSE Append(ch.steps,
                              [agent |-> a, input |-> Val(fr.result),
                               output |-> Val(r.ret)])]

\* one iteration of the loop, r the outcome of a.run_with_tools(result):
\* a raise leaves the loop and the call; otherwise the step is appended,
\* result is the output, and after the last agent the call returns result
call_iter(fr, ch, a, r) ==
    IF r.raised # None
    THEN [frame |-> [fr EXCEPT !.status = "raised", !.raised = r.raised,
                               !.turns = Append(@, fr.i)],
          steps |-> ch.steps]
    ELSE LET last == fr.i = Len(ch.agents)
         IN [frame |-> [fr EXCEPT
                          !.status = IF last THEN "returned" ELSE "running",
                          !.i = fr.i + 1,
                          !.result = r.ret,
                          !.ret = IF last THEN r.ret ELSE None,
                          !.turns = Append(@, fr.i)],
             steps |-> Append(ch.steps,
                          [agent |-> a, input |-> Val(fr.result),
                           output |-> Val(r.ret)])]

\* ---------------------------------------------- Chain: validate, show, use
\* a validate that stops at the first validator that rejects
validate_short_circuit(validators, step_output, step_num) ==
    LET n == Len(validators)
        rejecting == {i \in 1..n : step_output \notin validators[i]}
        stop == IF rejecting = {} THEN n
                ELSE CHOOSE i \in rejecting : \A j \in rejecting : i <= j
    IN [results |-> [i \in 1..stop |-> step_output \in validators[i]],
        ret |-> rejecting = {}]

\* Chain.validate: results holds v(step_output) of every validator v, the
\* value returned is all(results)
validate(validators, step_output, step_num) ==
    LET results == [i \in 1..Len(validators) |->
                        step_output \in validators[i]]
    IN [results |-> results,
        ret |-> \A i \in 1..Len(results) : results[i]]

\* str.capitalize on the role tags
Capitalize(role) ==
    CASE role = "system" -> "System"
      [] role = "user" -> "User"
      [] role = "assistant" -> "Assistant"
      [] role = "tool" -> "Tool"

\* Agent._format_history: one line "**Role:** content" for each message, the
\* content of a message standing as its identity
format_history(h) ==
    [i \in 1..Len(h) |-> [role |-> Capitalize(h[i].role), content |-> h[i].id]]

\* a show that prunes the history before it renders it
agent_show_pruned(ag, ch) ==
    LET pruned == prune_history(ag.memory_size, ch.h)
    IN [chat |-> [ch EXCEPT !.h = pruned],
        displayed |-> [role |-> ag.role, model |-> ag.model,
                       system |-> ch.sp, memory_size |-> ag.memory_size,
                       use |-> ch.use, history |-> format_history(pruned)]]

\* Agent.show: renders the configuration, the usage and the history of the
\* session; chat is the session as the call leaves it
agent_show(ag, ch) ==
    [chat |-> ch,
     displayed |-> [role |-> ag.role, model |-> ag.model, system |-> ch.sp,
                    memory_size |-> ag.memory_size, use |-> ch.use,
                    history |-> format_history(ch.h)]]

\* Chain.show: the roles of the agents, then role, input and output of
\* every step; steps is the list as the call leaves it
chain_show(ch, ag) ==
    [steps |-> ch.steps,
     ret |-> [structure |-> [i \in 1..Len(ch.agents) |->
                                Val(ag[ch.agents[i]]).role],
              execution |-> [i \in 1..Len(ch.steps) |->
                                [role |-> Val(ag[ch.steps[i].agent]).role,
                                 input |-> ch.steps[i].input,
                                 output |-> ch.steps[i].output]]]]

\* Chain.use: sum((a.chat.use for a in self.agents), start=0)
RECURSIVE SumUse(_, _)
SumUse(list, ct) ==
    IF list = <<>> THEN 0
    ELSE Val(ct[Head(list)]).use + SumUse(Tail(list), ct)

chain_use(ch, ct) == SumUse(ch.agents, ct)

\* ------------------------------------------------------------ extract_xml
\* a string is the sequence of its characters
Whitespace == {" ", "\t", "\n"}
TagArgs == {<<"a">>, <<"b">>}
OpenTag(tag) == <<"<">> \o tag \o <<">">>
CloseTag(tag) == <<"<", "/">> \o tag \o <<">">>
CDataOpen == <<"<", "!", "[", "C", "D", "A", "T", "A", "[">>
CDataClose == <<"]", "]", ">">>

\* the pieces a text is put together from
Pieces == {OpenTag(<<"a">>), CloseTag(<<"a">>), CDataOpen, CDataClose,
           <<" ">>, <<"h">>}

\* the literal lit stands in text at position p
LitAt(text, lit, p) ==
    /\ p >= 1
    /\ p + Len(lit) - 1 <= Len(text)
    /\ SubSeq(text, p, p + Len(lit) - 1) = lit

\* the length of the longest run of whitespace that starts at p
SpaceRun(text, p) ==
    CHOOSE n \in 0..(Len(text) - p + 1) :
        /\ \A i \in p..(p + n - 1) : text[i] \in Whitespace
        /\ p + n > Len(text) \/ text[p + n] \notin Whitespace

\* \s*</tag> matches at q
ClosesAt(text, tag, q) ==
    \E n \in 0..SpaceRun(text, q) : LitAt(text, CloseTag(tag), q + n)

\* (?:\]\]>)?\s*</tag> matches at e
TailAt(text, tag, e) ==
    \/ LitAt(text, CDataClose, e) /\ ClosesAt(text, tag, e + Len(CDataClose))
    \/ ClosesAt(text, tag, e)

\* the ways the pattern matches from position s: w characters taken by the
\* first \s*, c whether (?:<!\[CDATA\[)? took the marker, group 1 from g to
\* e - 1
Alternatives(text, tag, s) ==
    IF ~LitAt(text, OpenTag(tag), s) THEN {}
    ELSE LET p1 == s + Len(OpenTag(tag))
         IN {alt \in [w : 0..SpaceRun(text, p1), c : BOOLEAN,
                      g : p1..(Len(text) + 1), e : p1..(Len(text) + 1)] :
                /\ alt.c => LitAt(text, CDataOpen, p1 + alt.w)
                /\ alt.g = p1 + alt.w + (IF alt.c THEN Len(CDataOpen) ELSE 0)
                /\ alt.e >= alt.g
                /\ TailAt(text, tag, alt.e)}

\* the order in which the backtracking matcher tries the alternatives: the
\* greedy \s* longest first, the greedy optional marker taken first, the
\* group shortest first when it is lazy and longest first when it is not
Before(t, u, lazy) ==
    \/ t.w > u.w
    \/ t.w = u.w /\ t.c /\ ~u.c
    \/ t.w = u.w /\ t.c = u.c /\ (IF lazy THEN t.e <= u.e ELSE t.e >= u.e)

\* re.search(pattern, text, re.DOTALL): the first alternative at the
\* leftmost position where the pattern matches, None without a match
search(text, tag, lazy) ==
    LET starts == {s \in 1..Len(text) : Alternatives(text, tag, s) # {}}
    IN IF starts = {} THEN None
       ELSE LET s == CHOOSE s1 \in starts : \A s2 \in starts : s1 <= s2
                alts == Alternatives(text, tag, s)
                m == CHOOSE t \in alts : \A u \in alts : Before(t, u, lazy)
            IN Some([start |-> s, group1 |-> SubSeq(text, m.g, m.e - 1)])

\* str.strip()
strip(s) ==
    LET solid == {i \in 1..Len(s) : s[i] \notin Whitespace}
    IN IF solid = {} THEN <<>>
       ELSE SubSeq(s, CHOOSE i \in solid : \A j \in solid : i <= j,
                      CHOOSE i \in solid : \A j \in solid : i >= j)

\* an extraction whose group is greedy: (.*) in place of (.*?)
extract_xml_greedy(text, tag) ==
    LET match == search(text, tag, FALSE)
    IN IF match # None THEN strip(Val(match).group1) ELSE <<>>

\* extract_xml(text, tag): the pattern
\* <tag>\s*(?:<!\[CDATA\[)?(.*?)(?:\]\]>)?\s*</tag>
extract_xml(text, tag) ==
    LET match == search(text, tag, TRUE)
    IN IF match # None THEN strip(Val(match).group1) ELSE <<>>

\* --------------------------------------------------------------- logging
\* the levels of the logging module
NOTSET == 0
INFO == 20
WARNING == 30
LogNames == {"math", "test"}
LevelArgs == {NOTSET, INFO, WARNING}
LogDirArgs == {None, Some("logs"), Some("out")}

\* the level of the root logger of a process that did not configure logging;
\* the root logger has no handlers
RootLevel == WARNING

\* logging.getLogger(f"agent.{name}") of a name not asked for before
NewLogger == [level |-> NOTSET, handlers |-> <<>>]

\* Path(log_dir)/f"{name}.log"
LogFile(log_dir, name) == [dir |-> log_dir, file |-> name]

\* AgentLogger._setup_console_handler and _setup_file_handler on the logger
setup_console_handler(lg) ==
    [lg EXCEPT !.handlers = Append(@, [kind |-> "StreamHandler"])]

setup_file_handler(lg, name, log_dir) ==
    [lg EXCEPT !.handlers = Append(@, [kind |-> "FileHandler",
                                       path |-> LogFile(log_dir, name)])]

\* a construction that installs its handlers whatever the logger holds
logger_post_init_no_guard(lg, name, level, log_dir) ==
    LET set == [lg EXCEPT !.level = level]
        console == setup_console_handler(set)
    IN IF Truthy(log_dir)
       THEN setup_file_handler(console, name, Val(log_dir))
       ELSE console

\* AgentLogger.__post_init__ on lg, the logger that getLogger returned
logger_post_init(lg, name, level, log_dir) ==
    LET set == [lg EXCEPT !.level = level]
    IN IF set.handlers = <<>>
       THEN LET console == setup_console_handler(set)
            IN IF Truthy(log_dir)
               THEN setup_file_handler(console, name, Val(log_dir))
               ELSE console
       ELSE set

\* Logger.getEffectiveLevel: the level of the logger, that of the root
\* logger when it is NOTSET
EffectiveLevel(lg) == IF lg.level # NOTSET THEN lg.level ELSE RootLevel

\* AgentLogger.log_event: logger.info(...) hands one record to every
\* handler of the logger when INFO is enabled; console counts the lines
\* written to the console, files lists the files a line was written to
log_event(lg, event) ==
    LET enabled == INFO >= EffectiveLevel(lg)
        hs == IF enabled THEN lg.handlers ELSE <<>>
        fhs == SelectSeq(hs, LAMBDA h : h.kind = "FileHandler")
    IN [console |-> Len(SelectSeq(hs, LAMBDA h : h.kind = "StreamHandler")),
        files |-> [i \in 1..Len(fhs) |-> fhs[i].path]]

\* ------------------------------------------------------------------- Init
IdleFrame == [status |-> "idle", x |-> None, i |-> 0, result |-> None,
              entry |-> 0, raised |-> None, ret |-> None, turns |-> <<>>,
              vcalls |-> 0]

Init ==
    /\ agent = [a \in AgentIds |-> None]
    /\ chat = [a \in AgentIds |-> None]
    /\ ctorLog = [a \in AgentIds |-> None]
    /\ nextId = 1
    /\ lastTurn = None
    /\ chain = None
    /\ frame = IdleFrame
    /\ invokes = 0
    /\ sysSeen = [a \in AgentIds |-> {}]
    /\ answer = None
    /\ xml = [text |-> <<>>, pieces |-> 0, call |-> None]
    /\ loggers = [n \in LogNames |-> NewLogger]
    /\ instances = <<>>
    /\ lastLog = None

\* ---------------------------------------------------------------- actions
MemoryOf(a) == Val(agent[a]).memory_size
HistoryOf(a) == Val(chat[a]).h
NotRunning == frame.status # "running"

\* Agent(role, model, system=..., memory_size=...)
Construct(a, role, model, system, memory_size) ==
    /\ NotRunning
    /\ agent[a] = None
    /\ ctorLog[a] = None
    /\ LET r == post_init(role, model, system, memory_size)
       IN /\ ctorLog' = [ctorLog EXCEPT ![a] =
                 Some([role |-> role, model |-> model, system |-> system,
                       raised |-> r.raised])]
          /\ chat' = [chat EXCEPT ![a] = r.chat]
          /\ agent' = [agent EXCEPT ![a] =
                 IF r.raised = None
                 THEN Some([role |-> role, model |-> model, system |-> system,
                            memory_size |-> memory_size])
                 ELSE None]
    /\ answer' = None
    /\ UNCHANGED <<nextId, lastTurn, chain, frame, invokes, sysSeen>>
    /\ UNCHANGED <<xmlVars, logVars>>

\* agent.run_with_tools(prompt, max_steps) called directly
RunTurn(a, prompt, max_steps, beh) ==
    /\ NotRunning
    /\ agent[a] # None
    /\ nextId + Len(beh.roles) <= MaxMsgs + 1
    /\ LET h0 == Val(chat[a]).h
           r == run_with_tools(Val(agent[a]).memory_size, h0, prompt,
                               max_steps, beh, nextId)
       IN /\ chat' = [chat EXCEPT ![a] =
                      Some([Val(chat[a]) EXCEPT
                              !.h = r.h, !.use = @ + Completions(beh)])]
          /\ lastTurn' = Some(TurnRecord(a, h0, prompt, max_steps, beh, r))
          /\ sysSeen' = [sysSeen EXCEPT ![a] = @ \cup SystemOf(r.h)]
    /\ nextId' = nextId + Len(beh.roles)
    /\ answer' = None
    /\ UNCHANGED <<agent, ctorLog, chain, frame, invokes>>
    /\ UNCHANGED <<xmlVars, logVars>>

\* Chain(name, agents=[...], validators=[...]): steps starts as an empty
\* list; a validator is the set of the outputs it accepts
ChainConstruct(list, validators) ==
    /\ chain = None
    /\ \A i \in 1..Len(list) : agent[list[i]] # None
    /\ chain' = Some([agents |-> list, steps |-> <<>>,
                      validators |-> validators])
    /\ answer' = None
    /\ UNCHANGED <<agent, chat, ctorLog, nextId, lastTurn, frame, invokes,
                   sysSeen>>
    /\ UNCHANGED <<xmlVars, logVars>>

\* chain(x): entering Chain.__call__
Call(x) ==
    /\ NotRunning
    /\ chain # None
    /\ invokes < MaxInvokes
    /\ Len(Val(chain).steps) + Len(Val(chain).agents) <= MaxSteps
    /\ frame' = call_enter(Val(chain), x)
    /\ invokes' = invokes + 1
    /\ answer' = None
    /\ UNCHANGED <<agent, chat, ctorLog, nextId, lastTurn, chain, sysSeen>>
    /\ UNCHANGED <<xmlVars, logVars>>

\* chain(x): one iteration of the loop over self.agents
Iterate(beh) ==
    /\ frame.status = "running"
    /\ LET ch == Val(chain)
           a == ch.agents[frame.i]
           h0 == HistoryOf(a)
           prompt == Val(frame.result)
           r == run_with_tools(MemoryOf(a), h0, prompt, None, beh, nextId)
           it == call_iter(frame, ch, a, r)
       IN /\ chat' = [chat EXCEPT ![a] =
                      Some([Val(chat[a]) EXCEPT
                              !.h = r.h, !.use = @ + Completions(beh)])]
          /\ lastTurn' = Some(TurnRecord(a, h0, prompt, None, beh, r))
          /\ sysSeen' = [sysSeen EXCEPT ![a] = @ \cup SystemOf(r.h)]
          /\ frame' = it.frame
          /\ chain' = Some([ch EXCEPT !.steps = it.steps])
    /\ nextId' = nextId + Len(beh.roles)
    /\ answer' = None
    /\ UNCHANGED <<agent, ctorLog, invokes>>
    /\ UNCHANGED <<xmlVars, logVars>>

\* chain.validate(step_output, step_num)
Validate(step_output) ==
    /\ NotRunning
    /\ chain # None
    /\ LET r == validate(Val(chain).validators, step_output, 0)
       IN answer' = Some([op |-> "Chain.validate", arg |-> step_output,
                          results |-> r.results, ret |-> r.ret])
    /\ UNCHANGED <<agent, chat, ctorLog, nextId, lastTurn, chain, frame,
                   invokes, sysSeen>>
    /\ UNCHANGED <<xmlVars, logVars>>

\* agent._prune_history() called directly; before is the history before the
\* preceding call when that call was a pruning of the same agent
Prune(a) ==
    /\ NotRunning
    /\ agent[a] # None
    /\ LET h0 == HistoryOf(a)
           h1 == prune_history(MemoryOf(a), h0)
           again == /\ answer # None
                    /\ Val(answer).op = "Agent._prune_history"
                    /\ Val(answer).agent = a
       IN /\ chat' = [chat EXCEPT ![a] = Some([Val(chat[a]) EXCEPT !.h = h1])]
          /\ answer' = Some([op |-> "Agent._prune_history", agent |-> a,
                             pre |-> h0, post |-> h1,
                             before |-> IF again THEN Some(Val(answer).pre)
                                        ELSE None])
    /\ UNCHANGED <<agent, ctorLog, nextId, lastTurn, chain, frame, invokes,
                   sysSeen>>
    /\ UNCHANGED <<xmlVars, logVars>>

\* agent.show()
AgentShow(a) ==
    /\ NotRunning
    /\ agent[a] # None
    /\ LET r == agent_show(Val(agent[a]), Val(chat[a]))
       IN /\ chat' = [chat EXCEPT ![a] = Some(r.chat)]
          /\ answer' = Some([op |-> "Agent.show", agent |-> a,
                             displayed |-> r.displayed])
    /\ UNCHANGED <<agent, ctorLog, nextId, lastTurn, chain, frame, invokes,
                   sysSeen>>
    /\ UNCHANGED <<xmlVars, logVars>>

\* chain.show()
ChainShow ==
    /\ NotRunning
    /\ chain # None
    /\ LET r == chain_show(Val(chain), agent)
       IN /\ chain' = Some([Val(chain) EXCEPT !.steps = r.steps])
          /\ answer' = Some([op |-> "Chain.show", ret |-> r.ret])
    /\ UNCHANGED <<agent, chat, ctorLog, nextId, lastTurn, frame, invokes,
                   sysSeen>>
    /\ UNCHANGED <<xmlVars, logVars>>

\* chain.use
ChainUse ==
    /\ NotRunning
    /\ chain # None
    /\ answer' = Some([op |-> "Chain.use", ret |-> chain_use(Val(chain), chat)])
    /\ UNCHANGED <<agent, chat, ctorLog, nextId, lastTurn, chain, frame,
                   invokes, sysSeen>>
    /\ UNCHANGED <<xmlVars, logVars>>

\* the caller puts the text together
AppendPiece(p) ==
    /\ xml.pieces < MaxPieces
    /\ xml' = [text |-> xml.text \o p, pieces |-> xml.pieces + 1,
               call |-> None]
    /\ UNCHANGED <<agentVars, logVars>>

\* extract_xml(text, tag)
Extract(tag) ==
    /\ xml' = [xml EXCEPT !.call =
                  Some([tag |-> tag, ret |-> extract_xml(xml.text, tag)])]
    /\ UNCHANGED <<agentVars, logVars>>

\* AgentLogger(name, level=..., log_dir=...)
Logger(name, level, log_dir) ==
    /\ Len(instances) < MaxLoggers
    /\ loggers' = [loggers EXCEPT ![name] =
                      logger_post_init(@, name, level, log_dir)]
    /\ instances' = Append(instances, [name |-> name, level |-> level,
                                       log_dir |-> log_dir])
    /\ UNCHANGED <<lastLog, agentVars, xmlVars>>

EventCount == IF lastLog = None THEN 0 ELSE Val(lastLog).count

\* instances[i].log_event(event, ...)
LogEvent(i, event) ==
    /\ i \in 1..Len(instances)
    /\ EventCount < MaxEvents
    /\ LET r == log_event(loggers[instances[i].name], event)
       IN lastLog' = Some([count |-> EventCount + 1, inst |-> i,
                           event |-> event, console |-> r.console,
                           files |-> r.files])
    /\ UNCHANGED <<loggers, instances, agentVars, xmlVars>>

ChainLists == UNION {[1..n -> AgentIds] : n \in 0..MaxChainLen}

\* the two operations of an Agent, over given sets of arguments
AgentOps(Ids, Roles, Models, Systems, Mems, Prompts, Steps, Behs) ==
    \/ \E a \in Ids, role \in Roles, model \in Models,
          system \in Systems, memory_size \in Mems :
            Construct(a, role, model, system, memory_size)
    \/ \E a \in Ids, prompt \in Prompts, max_steps \in Steps, beh \in Behs :
            RunTurn(a, prompt, max_steps, beh)

\* one agent, every memory size, every behaviour of the client
Next == AgentOps({1}, {"tutor"}, models, {None}, MemoryArgs, {"p"}, {None},
                 ClientBehaviours)

Spec == Init /\ [][Next]_vars

\* one agent with a small memory, every max_steps argument
NextTurn == AgentOps({1}, {"tutor"}, models, {None}, {None, Some(1)}, {"p"},
                     MaxStepsArgs, ClientBehaviours)

SpecTurn == Init /\ [][NextTurn]_vars

\* one agent, every memory size, turns and prunings called directly
NextTrim ==
    \/ Next
    \/ Prune(1)

SpecTrim == Init /\ [][NextTrim]_vars

\* the client answers without tool calls, or raises after it has appended
\* the user's message
PlainBehaviours ==
    {b \in ClientBehaviours :
        b.roles \in {<<"user">>, <<"user", "assistant">>}}

\* construction over every argument, plain turns
NextCtor == AgentOps(AgentIds, RoleArgs, ModelArgs, SystemArgs,
                     {None, Some(1)}, {"p"}, {None},
                     {b \in PlainBehaviours : b.ok /\ b.out = "p"})

SpecCtor == Init /\ [][NextCtor]_vars

\* a chain over agents constructed before it
NextChain ==
    \/ \E a \in AgentIds :
          /\ chain = None
          /\ Construct(a, IF a = 1 THEN "writer" ELSE "translator", "gpt-4o",
                       None, Some(1))
    \/ \E list \in ChainLists : ChainConstruct(list, <<>>)
    \/ \E x \in Texts : Call(x)
    \/ \E beh \in PlainBehaviours : Iterate(beh)

SpecChain == Init /\ [][NextChain]_vars

\* a chain whose invocations all succeed: the client never raises
NextChainOk ==
    \/ \E a \in AgentIds :
          /\ chain = None
          /\ Construct(a, IF a = 1 THEN "writer" ELSE "translator", "gpt-4o",
                       None, Some(1))
    \/ \E list \in ChainLists : ChainConstruct(list, <<>>)
    \/ \E x \in Texts : Call(x)
    \/ \E beh \in {b \in PlainBehaviours : b.ok} : Iterate(beh)

SpecChainOk == Init /\ [][NextChainOk]_vars

\* a chain with validators, and the operations that only read
ValidatorArgs == {{}, {"p"}}
ValidatorLists == UNION {[1..n -> ValidatorArgs] : n \in 0..MaxValidators}
OrderedLists == {[i \in 1..n |-> i] : n \in 0..MaxChainLen}

NextOps ==
    \/ \E a \in AgentIds :
          /\ chain = None
          /\ Construct(a, IF a = 1 THEN "writer" ELSE "translator", "gpt-4o",
                       None, Some(1))
    \/ \E list \in OrderedLists \cap ChainLists, vs \in ValidatorLists :
          ChainConstruct(list, vs)
    \/ Call("p")
    \/ \E beh \in PlainBehaviours : Iterate(beh)
    \/ \E step_output \in Texts : Validate(step_output)
    \/ \E a \in AgentIds : AgentShow(a)
    \/ ChainShow
    \/ ChainUse

SpecOps == Init /\ [][NextOps]_vars

\* extraction from texts put together from pieces
NextXml ==
    \/ \E p \in Pieces : AppendPiece(p)
    \/ \E tag \in TagArgs : Extract(tag)

SpecXml == Init /\ [][NextXml]_vars

\* loggers constructed in one process, and their events
NextLog ==
    \/ \E name \in LogNames, level \in LevelArgs, log_dir \in LogDirArgs :
          Logger(name, level, log_dir)
    \/ \E i \in 1..MaxLoggers : LogEvent(i, "tool_called")

SpecLog == Init /\ [][NextLog]_vars

\* ------------------------------------------------------------- properties
Turned == lastTurn # None
Turn == Val(lastTurn)
Positive(memory_size) == memory_size # None /\ Val(memory_size) > 0
Min(x, y) == IF x <= y THEN x ELSE y

\* every system message of h stands before every non-system message of h
SystemFirst(h) ==
    \A i, j \in 1..Len(h) : (IsSystem(h[i]) /\ NonSystem(h[j])) => i < j

IsPrefix(s, t) == Len(s) <= Len(t) /\ SubSeq(t, 1, Len(s)) = s

\* the pruning of the last turn replaced the history
Fired == /\ Turned
         /\ Positive(MemoryOf(Turn.agent))
         /\ Len(Turn.pre) > Val(MemoryOf(Turn.agent)) + 1

\* C1: with memory_size = N > 0, the history observed after every
\* run_with_tools call holds at most N non-system messages.
C1_CapAfterTurn ==
    \A a \in AgentIds :
        (agent[a] # None /\ Positive(MemoryOf(a)))
            => NonSystemCount(HistoryOf(a)) <= Val(MemoryOf(a))

\* C2 as stated: with memory_size = N > 0, after any number of turns every
\* system message that was ever in the history is still in it, and every
\* system message stands before every non-system message.
C2_SystemKeptAndFirst ==
    \A a \in AgentIds :
        (agent[a] # None /\ Positive(MemoryOf(a)))
            => /\ sysSeen[a] \subseteq Range(HistoryOf(a))
               /\ SystemFirst(HistoryOf(a))

\* C2 as amended: with memory_size = N > 0, after any number of turns every
\* system message that was ever in the history is still in it; the system
\* messages stand before the non-system messages in the history that a
\* pruning which fired (more than N+1 stored messages at the start of the
\* turn) hands to the client, not in the history observed after the turn.
C2_SystemKept ==
    /\ \A a \in AgentIds :
          (agent[a] # None /\ Positive(MemoryOf(a)))
              => sysSeen[a] \subseteq Range(HistoryOf(a))
    /\ Fired => SystemFirst(Turn.sent)

\* a pruning fired on a history with a system message behind a non-system
\* one, and the history after the turn still holds every system message
C2_Witness ==
    /\ Fired
    /\ ~SystemFirst(Turn.pre)
    /\ Turn.sent # Turn.pre
    /\ Cardinality(sysSeen[Turn.agent]) >= 2

\* C3: with memory_size None or <= 0 the pruning leaves the history as it
\* is, and the history before a turn is a prefix of the history after it.
C3_NoTrimWhenDisabled ==
    (Turned /\ ~Positive(MemoryOf(Turn.agent)))
        => /\ Turn.sent = Turn.pre
           /\ IsPrefix(Turn.pre, Turn.post)
           /\ HistoryOf(Turn.agent) = Turn.post

\* a turn of an agent with memory_size 0 on a history that a positive
\* memory_size would have pruned, a system message behind a non-system one
C3_Witness ==
    /\ Turned
    /\ MemoryOf(Turn.agent) = Some(0)
    /\ Len(Turn.pre) >= 3
    /\ ~SystemFirst(Turn.pre)
    /\ Len(Turn.post) > Len(Turn.pre)

\* C4: a pruning with memory_size = N > 0 on more than N+1 messages yields
\* all system messages of the old history in their order, followed by its
\* last min(N, number of non-system messages) non-system messages in their
\* order; nothing is added, nothing occurs twice.
C4_TrimResult ==
    Fired =>
        LET N == Val(MemoryOf(Turn.agent))
            sys == SelectSeq(Turn.pre, IsSystem)
            non == SelectSeq(Turn.pre, NonSystem)
            k == Min(N, Len(non))
            out == Turn.sent
        IN /\ Len(out) = Len(sys) + k
           /\ \A i \in 1..Len(sys) : out[i] = sys[i]
           /\ \A j \in 1..k : out[Len(sys) + j] = non[Len(non) - k + j]
           /\ Range(out) \subseteq Range(Turn.pre)
           /\ Cardinality({out[i].id : i \in 1..Len(out)}) = Len(out)

\* a pruning that dropped non-system messages and moved a system message
C4_Witness ==
    /\ Fired
    /\ ~SystemFirst(Turn.pre)
    /\ NonSystemCount(Turn.pre) > Val(MemoryOf(Turn.agent))
    /\ NonSystemCount(Turn.sent) >= 2

\* C7: when the client's tool loop raises, run_with_tools raises that same
\* error, returns no value, and has called the client exactly once.
C7_ClientFailurePropagates ==
    (Turned /\ ~Turn.beh.ok)
        => /\ Turn.raised = Some(Turn.beh.out)
           /\ Turn.ret = None
           /\ Len(Turn.calls) = 1

\* a turn in which the client raised after it had appended messages
C7_Witness ==
    /\ Turned
    /\ ~Turn.beh.ok
    /\ Turn.raised = Some("ToolError")
    /\ Len(Turn.post) > Len(Turn.sent)

\* the error of the registry check, InvalidModelError in the specification
InvalidModelError == "ValueError"

\* C5: Agent(...) with a model outside the registry raises the invalid-model
\* error out of the constructor, with no Chat session created and no system
\* prompt set; no agent comes out of the call.
C5_InvalidModelRaises ==
    \A a \in AgentIds :
        (ctorLog[a] # None /\ Val(ctorLog[a]).model \notin models)
            => /\ Val(ctorLog[a]).raised = Some(InvalidModelError)
               /\ chat[a] = None
               /\ agent[a] = None

\* a construction with "bad-model" failed beside one that succeeded
C5_Witness ==
    \E a, b \in AgentIds :
        /\ ctorLog[a] # None
        /\ Val(ctorLog[a]).model = "bad-model"
        /\ Val(ctorLog[a]).raised # None
        /\ agent[b] # None
        /\ chat[b] # None

\* C6: after a successful construction the session's system prompt is the
\* system argument for every string given, and "You are a {role}." exactly
\* when system is None.
C6_SystemPrompt ==
    \A a \in AgentIds :
        agent[a] # None =>
            LET f == Val(agent[a])
            IN Val(chat[a]).sp =
                  IF f.system # None THEN f.system
                  ELSE Some(DefaultPrompt(f.role))

Steps == Val(chain).steps
Agents == Val(chain).agents

\* C8: after one call of a chain with a non-empty agent list in which every
\* turn succeeded, there are as many steps as agents and each step's output
\* is the next step's input.
C8_StepsLinked ==
    (chain # None /\ Len(Agents) > 0 /\ invokes = 1
     /\ frame.status = "returned")
        => /\ Len(Steps) = Len(Agents)
           /\ \A i \in 1..(Len(Steps) - 1) :
                 Steps[i].output = Steps[i + 1].input

\* one call of a chain of two agents returned, the outputs of the two
\* agents differing and the first output differing from the input
C8_Witness ==
    /\ chain # None
    /\ Len(Agents) = 2
    /\ invokes = 1
    /\ frame.status = "returned"
    /\ Len(Steps) = 2
    /\ Steps[1].output # Steps[2].output
    /\ Steps[1].input # Steps[1].output

\* C9: a call of a chain without agents returns its input, appends no step
\* and runs no turn of any agent.
C9_EmptyChainIdentity ==
    (chain # None /\ Len(Agents) = 0 /\ frame.status # "idle")
        => /\ frame.status = "returned"
           /\ frame.ret = frame.x
           /\ Len(Steps) = frame.entry
           /\ Steps = <<>>
           /\ frame.turns = <<>>
           /\ lastTurn = None
           /\ nextId = 1

\* an empty chain was called twice, agents being constructed beside it
C9_Witness ==
    /\ chain # None
    /\ Len(Agents) = 0
    /\ invokes = 2
    /\ frame.status = "returned"
    /\ frame.ret = Some("q")
    /\ \E a \in AgentIds : agent[a] # None

\* C10: when the turn of the agent at position k raises, the call raises
\* that error and returns nothing, this call has appended exactly the k-1
\* steps of the agents before k, none for agent k, and no agent after k was
\* run; with two agents and a failing second one, steps holds one entry,
\* the first agent's.
C10_FailureAborts ==
    (chain # None /\ frame.status = "raised")
        => LET k == frame.i
           IN /\ frame.raised = Val(lastTurn).raised
              /\ frame.raised = Some(Val(lastTurn).beh.out)
              /\ frame.ret = None
              /\ Len(Steps) = frame.entry + k - 1
              /\ \A j \in 1..(k - 1) :
                    Steps[frame.entry + j].agent = Agents[j]
              /\ frame.turns = [j \in 1..k |-> j]
              /\ (Len(Agents) = 2 /\ k = 2 /\ invokes = 1)
                    => (Len(Steps) = 1 /\ Steps[1].agent = Agents[1])

\* the first call of a chain of two different agents raised in the second
\* agent's turn, a third agent position being absent
C10_Witness ==
    /\ chain # None
    /\ frame.status = "raised"
    /\ Len(Agents) = 2
    /\ Agents[1] # Agents[2]
    /\ frame.i = 2
    /\ invokes = 1
    /\ Len(Steps) = 1

\* the turns of the current activation that returned, and the prompt of
\* its j-th turn as the threading of results gives it
Succeeded ==
    IF frame.status = "raised" THEN Len(frame.turns) - 1 ELSE Len(frame.turns)
InputOf(j) ==
    IF j = 1 THEN Val(frame.x) ELSE Steps[frame.entry + j - 1].output

\* C11: in every call of the chain the agents run in list order, each once;
\* the first is given x and each later one the result before it; the entry
\* {agent, input, output} of a turn is on steps as soon as the turn has
\* returned; the call returns the output of the last agent, the output of
\* the last entry of steps.
C11_InOrderThreaded ==
    (chain # None /\ frame.status # "idle") =>
        LET n == Len(frame.turns)
        IN /\ frame.turns = [j \in 1..n |-> j]
           /\ n <= Len(Agents)
           /\ Len(Steps) = frame.entry + Succeeded
           /\ \A j \in 1..Succeeded :
                 /\ Steps[frame.entry + j].agent = Agents[j]
                 /\ Steps[frame.entry + j].input = InputOf(j)
           /\ n > 0 =>
                 /\ Turn.agent = Agents[n]
                 /\ Turn.prompt = InputOf(n)
                 /\ Turn.raised = None =>
                       Steps[frame.entry + n].output = Val(Turn.ret)
           /\ frame.status = "returned" =>
                 /\ n = Len(Agents)
                 /\ n > 0 => frame.ret = Some(Steps[Len(Steps)].output)

\* the second call of a chain of two different agents returned, each
\* agent's output differing from its input
C11_Witness ==
    /\ chain # None
    /\ Len(Agents) = 2
    /\ Agents[1] # Agents[2]
    /\ invokes = 2
    /\ frame.status = "returned"
    /\ frame.entry = 2
    /\ Steps[3].input # Steps[3].output
    /\ Steps[4].input # Steps[4].output

\* C12: steps is append-only: every step of the program leaves the entries
\* that steps held as an unchanged prefix of steps.
C12_StepsAppendOnly ==
    [][chain # None =>
         /\ chain' # None
         /\ IsPrefix(Val(chain).steps, Val(chain').steps)]_vars

\* a second call, one that raised, appended to the entries of the first
C12_Witness ==
    /\ chain # None
    /\ invokes = 2
    /\ frame.entry >= 1
    /\ Len(Steps) > frame.entry
    /\ frame.status = "raised"

Answer == Val(answer)
Validators == Val(chain).validators

\* C13: validate(step_output) evaluates every validator of the chain on
\* step_output, also those after one that returned false, and returns true
\* exactly when every validator returned true; with no validators it returns
\* true.
C13_ValidateAll ==
    (chain # None /\ answer # None /\ Answer.op = "Chain.validate") =>
        LET n == Len(Validators)
        IN /\ Len(Answer.results) = n
           /\ \A i \in 1..n :
                 Answer.results[i] = (Answer.arg \in Validators[i])
           /\ Answer.ret = (\A i \in 1..n : Answer.arg \in Validators[i])
           /\ (n = 0 => Answer.ret = TRUE)

\* the first validator rejects, the second one is still evaluated and accepts
C13_Witness ==
    /\ chain # None
    /\ answer # None
    /\ Answer.op = "Chain.validate"
    /\ Answer.results = <<FALSE, TRUE>>
    /\ Answer.ret = FALSE

\* C14: an invocation never calls a validator: whatever the validator list,
\* every iteration records the step and passes the result on exactly as it
\* does without validators, and only a failing turn stops the invocation.
C14_InvokeIgnoresValidators ==
    [][(chain # None /\ frame.status = "running" /\ frame' # frame) =>
         LET r == Val(lastTurn')
             last == frame.i = Len(Agents)
         IN /\ frame'.vcalls = 0
            /\ r.agent = Agents[frame.i]
            /\ r.raised = None =>
                  /\ frame'.status = IF last THEN "returned" ELSE "running"
                  /\ frame'.result = r.ret
                  /\ frame'.ret = IF last THEN r.ret ELSE None
                  /\ Val(chain').steps =
                        Append(Steps, [agent |-> r.agent,
                                       input |-> Val(frame.result),
                                       output |-> Val(r.ret)])
            /\ r.raised # None =>
                  /\ frame'.status = "raised"
                  /\ frame'.raised = r.raised
                  /\ Val(chain').steps = Steps]_vars

\* an invocation of two agents that returned although every validator rejects
\* every output
C14_Witness ==
    /\ chain # None
    /\ Validators = <<{}, {}>>
    /\ Len(Agents) = 2
    /\ frame.status = "returned"
    /\ Len(Steps) = frame.entry + 2
    /\ frame.ret = Some(Steps[Len(Steps)].output)

\* C18: the history of an agent changes only in a turn of that agent, from
\* the history before the turn to the history the trim and the client left;
\* show and _format_history of an agent, and show, validate and use of a
\* chain, leave every history and the steps of the chain as they were.
C18_ReadOnlyOps ==
    [][/\ \A a \in AgentIds :
            (chat[a] # None /\ chat'[a] # None
                /\ Val(chat'[a]).h # Val(chat[a]).h) =>
                    /\ lastTurn' # None
                    /\ Val(lastTurn').agent = a
                    /\ Val(lastTurn').pre = Val(chat[a]).h
                    /\ Val(lastTurn').post = Val(chat'[a]).h
       /\ answer' # None =>
            /\ Val(answer').op \in {"Agent.show", "Chain.show",
                                    "Chain.validate", "Chain.use"}
            /\ chat' = chat
            /\ chain' = chain]_vars

\* show of an agent whose history is longer than the trim would leave it,
\* while the chain has recorded steps
C18_Witness ==
    /\ chain # None
    /\ Len(Steps) >= 2
    /\ answer # None
    /\ Answer.op = "Agent.show"
    /\ Len(Answer.displayed.history) >= 4
    /\ Positive(Answer.displayed.memory_size)
    /\ Len(Answer.displayed.history) > Val(Answer.displayed.memory_size) + 1

\* C19: in one run_with_tools call the pruning happens once and before the
\* client is called: the client is called on the pruned history and what it
\* appends stays; toolloop is called once, with the prompt and the max_steps
\* of the caller, 5 when none is given, and the call returns the text of
\* the response of that toolloop call.
C19_TurnOrder ==
    Turned =>
        LET mem == MemoryOf(Turn.agent)
        IN /\ Turn.prunes = 1
           /\ IF Fired
              THEN NonSystemCount(Turn.sent) <= Val(mem)
              ELSE Turn.sent = Turn.pre
           /\ Len(Turn.calls) = 1
           /\ Turn.calls[1].prompt = Turn.prompt
           /\ Turn.calls[1].max_steps =
                 IF Turn.max_steps = None THEN 5 ELSE Val(Turn.max_steps)
           /\ IsPrefix(Turn.sent, Turn.post)
           /\ Len(Turn.post) = Len(Turn.sent) + Len(Turn.beh.roles)
           /\ HistoryOf(Turn.agent) = Turn.post
           /\ Turn.beh.ok =>
                 (Turn.raised = None /\ Turn.ret = Some(Turn.beh.out))

\* a turn with max_steps given, whose pruning dropped messages before the
\* client appended more than the memory size allows
C19_Witness ==
    /\ Fired
    /\ Turn.max_steps = Some(2)
    /\ Turn.calls[1].max_steps = 2
    /\ Len(Turn.sent) < Len(Turn.pre)
    /\ Turn.beh.ok
    /\ Turn.ret = Some("q")
    /\ NonSystemCount(Turn.post) > Val(MemoryOf(Turn.agent))

\* C20: when the pruning fires, the history it leaves is the system
\* messages of the old history followed by non-system messages only, so a
\* system message that stood behind a non-system message stands at an
\* earlier position, among the first ones.
C20_SystemMovedToFront ==
    Fired =>
        LET pre == Turn.pre
            out == Turn.sent
            k == Len(SelectSeq(pre, IsSystem))
        IN /\ Len(out) >= k
           /\ \A i \in 1..Len(out) : IsSystem(out[i]) <=> i <= k
           /\ \A i \in 1..Len(pre) :
                 (IsSystem(pre[i]) /\ \E j \in 1..(i-1) : NonSystem(pre[j]))
                     => \E i2 \in 1..Min(k, i-1) : out[i2] = pre[i]

\* the pruning fired on a history with a system message between two
\* non-system messages, and kept a non-system message behind it
C20_Witness ==
    /\ Fired
    /\ \E i \in 2..(Len(Turn.pre) - 1) :
          /\ IsSystem(Turn.pre[i])
          /\ NonSystem(Turn.pre[i-1])
          /\ NonSystem(Turn.pre[i+1])
    /\ NonSystemCount(Turn.sent) >= 1
    /\ IsSystem(Turn.sent[1])

Called == xml.call # None
CallTag == Val(xml.call).tag
CallRet == Val(xml.call).ret

\* the positions of the opening and of the closing tags of the text
Opens(text, tag) == {s \in 1..Len(text) : LitAt(text, OpenTag(tag), s)}
ClosesFrom(text, tag, p) ==
    {q \in p..Len(text) : LitAt(text, CloseTag(tag), q)}
FirstOf(S) == CHOOSE i \in S : \A j \in S : i <= j

\* the text holds <tag> with </tag> behind it
HasPair(text, tag) ==
    \E s \in Opens(text, tag) :
        ClosesFrom(text, tag, s + Len(OpenTag(tag))) # {}

\* where the content of the first occurrence starts, and where it ends
ContentFrom(text, tag) == FirstOf(Opens(text, tag)) + Len(OpenTag(tag))
ContentTo(text, tag) ==
    FirstOf(ClosesFrom(text, tag, ContentFrom(text, tag))) - 1

\* s without the CDATA wrapper around it, s itself when it has none
Unwrapped(s) ==
    IF /\ Len(s) >= Len(CDataOpen) + Len(CDataClose)
       /\ LitAt(s, CDataOpen, 1)
       /\ LitAt(s, CDataClose, Len(s) - Len(CDataClose) + 1)
    THEN SubSeq(s, Len(CDataOpen) + 1, Len(s) - Len(CDataClose))
    ELSE s

\* C15: extract_xml returns the content between <tag> and </tag> without
\* the whitespace around it and without a CDATA wrapper around it, and the
\* empty string when the text has no <tag>...</tag> pair; "<a>hello</a>"
\* gives "hello", "<a><![CDATA[hi]]></a>" gives "hi", "<b>x</b>" gives ""
\* for tag a.
C15_TrimmedContent ==
    /\ extract_xml(<<"<", "a", ">", "h", "e", "l", "l", "o",
                     "<", "/", "a", ">">>, <<"a">>)
            = <<"h", "e", "l", "l", "o">>
    /\ extract_xml(OpenTag(<<"a">>) \o CDataOpen \o <<"h", "i">>
                     \o CDataClose \o CloseTag(<<"a">>), <<"a">>)
            = <<"h", "i">>
    /\ extract_xml(<<"<", "b", ">", "x", "<", "/", "b", ">">>, <<"a">>) = <<>>
    /\ Called =>
          IF HasPair(xml.text, CallTag)
          THEN CallRet =
                 strip(Unwrapped(strip(SubSeq(xml.text,
                                              ContentFrom(xml.text, CallTag),
                                              ContentTo(xml.text, CallTag)))))
          ELSE CallRet = <<>>

\* C16: with several occurrences of </tag> the value returned lies between
\* the first <tag> and the first </tag> behind it: it is a part of that
\* stretch of the text and holds no closing tag.
C16_FirstOccurrence ==
    (Called /\ HasPair(xml.text, CallTag)) =>
        LET from == ContentFrom(xml.text, CallTag)
            to == ContentTo(xml.text, CallTag)
        IN /\ \E i \in from..(to + 1), j \in (from - 1)..to :
                 CallRet = SubSeq(xml.text, i, j)
           /\ \A k \in 1..Len(CallRet) :
                 ~LitAt(CallRet, CloseTag(CallTag), k)

\* an extraction from a text with content before the first closing tag and
\* more content and a second closing tag behind it
C16_Witness ==
    /\ Called
    /\ HasPair(xml.text, CallTag)
    /\ CallRet # <<>>
    /\ LET to == ContentTo(xml.text, CallTag)
       IN \E q \in ClosesFrom(xml.text, CallTag, to + 2) :
             \E i \in (to + 1)..q : xml.text[i] = "h"

Logged == lastLog # None
Log == Val(lastLog)
LogInstance == instances[Log.inst]

\* C17: whatever loggers were constructed before, a log_event call of an
\* instance (constructed with a level that lets INFO through) writes one
\* line to the console and, when the instance was given a log directory,
\* one line to the file {log_dir}/{name}.log.
C17_OneLinePerEvent ==
    (Logged /\ LogInstance.level # NOTSET /\ LogInstance.level <= INFO) =>
        /\ Log.console = 1
        /\ LogInstance.log_dir # None =>
              Len(SelectSeq(Log.files,
                    LAMBDA f : f = LogFile(Val(LogInstance.log_dir),
                                           LogInstance.name))) = 1

\* C21: with memory_size = N > 0 and at most N+1 messages in the history,
\* the pruning leaves the history as it is, the same messages in the same
\* order, whatever the roles of the messages are.
C21_ShortHistoryUntouched ==
    (Turned /\ Positive(MemoryOf(Turn.agent))
        /\ Len(Turn.pre) <= Val(MemoryOf(Turn.agent)) + 1)
            => Turn.sent = Turn.pre

\* a turn on a history of exactly N+1 messages, more than one of them
\* non-system, with a system message behind a non-system one
C21_Witness ==
    /\ Turned
    /\ Positive(MemoryOf(Turn.agent))
    /\ Len(Turn.pre) = Val(MemoryOf(Turn.agent)) + 1
    /\ ~SystemFirst(Turn.pre)
    /\ NonSystemCount(Turn.pre) >= 2
    /\ Len(Turn.post) > Len(Turn.pre)

\* C23: with memory_size = N > 0 the history the client is called on, the
\* one the pruning of the turn left, holds at most N+1 non-system messages,
\* and it holds more than N of them only when it holds no system message
\* and the pruning did not fire.
C23_SentBound ==
    (Turned /\ Positive(MemoryOf(Turn.agent))) =>
        LET N == Val(MemoryOf(Turn.agent))
        IN /\ NonSystemCount(Turn.sent) <= N + 1
           /\ NonSystemCount(Turn.sent) > N =>
                 /\ SystemOf(Turn.sent) = {}
                 /\ ~Fired
                 /\ Turn.sent = Turn.pre

\* the client is called on N+1 non-system messages; and the history after
\* that turn holds still more
C23_Witness ==
    /\ Turned
    /\ Positive(MemoryOf(Turn.agent))
    /\ NonSystemCount(Turn.sent) = Val(MemoryOf(Turn.agent)) + 1
    /\ Val(MemoryOf(Turn.agent)) >= 2
    /\ NonSystemCount(Turn.post) > NonSystemCount(Turn.sent)

\* C24: the pruning is idempotent: a second pruning right after a first one
\* leaves the history the first one left, for every history and every
\* memory_size.
C24_TrimIdempotent ==
    (answer # None /\ Answer.op = "Agent._prune_history"
        /\ Answer.before # None) =>
            /\ Answer.post = Answer.pre
            /\ HistoryOf(Answer.agent) = Answer.pre

\* the first pruning rewrote the history, and the second one fired again on
\* what the first one left
C24_Witness ==
    /\ answer # None
    /\ Answer.op = "Agent._prune_history"
    /\ Answer.before # None
    /\ Val(Answer.before) # Answer.pre
    /\ Positive(MemoryOf(Answer.agent))
    /\ Len(Answer.pre) > Val(MemoryOf(Answer.agent)) + 1
    /\ NonSystemCount(Answer.pre) >= 1

\* the instances constructed with the name n, in the order of construction
InstancesOf(n) == SelectSeq(instances, LAMBDA inst : inst.name = n)
ConsoleHandlers(n) ==
    SelectSeq(loggers[n].handlers, LAMBDA h : h.kind = "StreamHandler")
FileHandlers(n) ==
    SelectSeq(loggers[n].handlers, LAMBDA h : h.kind = "FileHandler")

C25_StepsPerInvoke ==
    chain # None =>
        LET n == Len(Agents)
            running == frame.status = "running"
            k == IF running THEN invokes - 1 ELSE invokes
        IN /\ frame.status # "raised"
           /\ Len(Steps) = k * n + (IF running THEN frame.i - 1 ELSE 0)
           /\ \A j \in 0..(Len(Steps) - 1) :
                 Steps[j + 1].agent = Agents[(j % n) + 1]

\* two invocations of a chain of two different agents have returned
C25_Witness ==
    /\ chain # None
    /\ Len(Agents) = 2
    /\ Agents[1] # Agents[2]
    /\ invokes = 2
    /\ frame.status = "returned"
    /\ Len(Steps) = 4
    /\ Steps[3].agent = Agents[1]
    /\ Steps[4].agent = Agents[2]
====
